---- MODULE Spec2Model ----
(***************************************************************************)
(* Model of percent-cache-mover.py: the metadata store, the inventory      *)
(* scan (update_metadata), the candidacy classifier (get_filelists), the   *)
(* transfer wrapper (rsync_move) and the eviction run (main).              *)
(*                                                                         *)
(* A path is a sequence of tokens; "/" is the separator token and every    *)
(* other token is one path component.  No component of the universe but    *)
(* "c" starts with the letter c, so str.replace on the character string    *)
(* and StrReplace on the token sequence find the same occurrences of the   *)
(* cache root "/c".                                                        *)
(***************************************************************************)
EXTENDS Integers, Sequences, FiniteSets, TLC

(* ------------------------------ bounds -------------------------------- *)

\* access times of files are drawn from 0..MaxATime (in days)
MaxATime == 1
\* a file is small (1 byte) or large (MaxSize bytes)
MaxSize == 2
\* device ids are drawn from 1..MaxDev; the cache pool root is on device 1
MaxDev == 2
\* number of external changes to the snapshot directory in the refresh harness
MaxChanges == 1
\* number of transfers rsync fails in one run
MaxFailures == 1

(* ------------------------- strings and paths -------------------------- *)

\* code points of the characters of an identifier, as Python compares str
Chars(s) ==
  CASE s = "0" -> <<48>>
    [] s = "9" -> <<57>>
    [] s = "10" -> <<49, 48>>

RECURSIVE SeqLess(_, _)
\* lexicographic order of two code point sequences (str.__lt__)
SeqLess(a, b) ==
  IF b = <<>> THEN FALSE
  ELSE IF a = <<>> THEN TRUE
  ELSE IF a[1] # b[1] THEN a[1] < b[1]
  ELSE SeqLess(Tail(a), Tail(b))

StrLess(s, t) == SeqLess(Chars(s), Chars(t))

\* max() over the keys of a dict
StrMax(S) == CHOOSE m \in S : \A k \in S : k = m \/ StrLess(k, m)

IsPrefix(p, s) == Len(p) <= Len(s) /\ SubSeq(s, 1, Len(p)) = p

RECURSIVE StrReplace(_, _, _)
\* s.replace(old, new): every non-overlapping occurrence, left to right
StrReplace(s, old, new) ==
  IF Len(s) < Len(old) THEN s
  ELSE IF IsPrefix(old, s)
       THEN new \o StrReplace(SubSeq(s, Len(old) + 1, Len(s)), old, new)
       ELSE <<s[1]>> \o StrReplace(Tail(s), old, new)

\* os.path.join(a, name)
Join(a, name) == a \o <<"/", name>>

\* the cache_pool argument after rstrip("/")
CachePool == <<"/", "c">>

\* os.path.join(cache_pool, ".snapshots")
SnapMain(cache_pool) == Join(cache_pool, ".snapshots")

\* os.path.join(snap_main, n, "snapshot")
SnapDir(cache_pool, n) == Join(Join(SnapMain(cache_pool), n), "snapshot")

(* ---------------------------- filesystem ------------------------------ *)
(* A filesystem value is a record                                          *)
(*   dirs  : path -> stat   the directories                                *)
(*   files : path -> stat   the regular files                              *)
(*   order : Seq(token)     the order in which scandir lists names         *)
(* and a stat is [st_dev, st_size, st_atime].                              *)

Stat(dev, size, atime) == [st_dev |-> dev, st_size |-> size, st_atime |-> atime]

Exists(f, p) == p \in DOMAIN f.dirs \/ p \in DOMAIN f.files

IsDir(f, p) == p \in DOMAIN f.dirs

\* os.stat(p)
OsStat(f, p) == IF p \in DOMAIN f.dirs THEN f.dirs[p] ELSE f.files[p]

\* the names of the entries of directory d, in scandir order
ListDir(f, d) == SelectSeq(f.order, LAMBDA n : Exists(f, Join(d, n)))

\* os.listdir(d) as a set
ListDirSet(f, d) == {n \in {f.order[i] : i \in 1..Len(f.order)} : Exists(f, Join(d, n))}

SubDirs(f, d) == SelectSeq(ListDir(f, d), LAMBDA n : IsDir(f, Join(d, n)))

FileNames(f, d) == SelectSeq(ListDir(f, d), LAMBDA n : ~IsDir(f, Join(d, n)))

RECURSIVE OsWalk(_, _, _)
RECURSIVE OsWalkAll(_, _, _, _)
\* os.walk(top), top-down: the sequence of directories visited.  pruned is
\* the set of directories at which the caller empties dirs[:] before the
\* walk goes on.
OsWalk(f, top, pruned) ==
  IF ~IsDir(f, top) THEN <<>>
  ELSE <<top>> \o (IF top \in pruned THEN <<>>
                   ELSE OsWalkAll(f, top, SubDirs(f, top), pruned))

OsWalkAll(f, parent, names, pruned) ==
  IF names = <<>> THEN <<>>
  ELSE OsWalk(f, Join(parent, names[1]), pruned)
         \o OsWalkAll(f, parent, Tail(names), pruned)

RECURSIVE Concat(_)
Concat(ss) == IF ss = <<>> THEN <<>> ELSE ss[1] \o Concat(Tail(ss))

\* an insertion-ordered dict as a sequence of [fp, st] items
Item(fp, st) == [fp |-> fp, st |-> st]

Keys(d) == {d[i].fp : i \in 1..Len(d)}

HasKey(d, k) == \E i \in 1..Len(d) : d[i].fp = k

\* d.pop(k, None): the dict without key k
Pop(d, k) == SelectSeq(d, LAMBDA it : it.fp # k)

(* --------------------------- load_metadata ---------------------------- *)
(* The metadata file is [state, content]: state is "absent", "corrupt" or  *)
(* "ok", and content is the store it holds when state is "ok".             *)

EmptyStore == [k \in {} |-> <<>>]

NoFile == [state |-> "absent", content |-> EmptyStore]

\* a file that json.load rejects: the text of a store cut short, of which
\* only the (empty) entry of snapshot 9 can still be read
CorruptFile ==
  [state |-> "corrupt",
   content |-> [k \in {"9"} |-> [root |-> <<>>, dirs |-> <<>>, files |-> <<>>]]]

\* what save_metadata leaves at a path
SavedFile(metadata) == [state |-> "ok", content |-> metadata]

\* a loader that keeps what it could read of a file json.load rejects
LoadMetadataPartial(file) == file.content

LoadMetadata(file) == IF file.state = "ok" THEN file.content ELSE EmptyStore

(* -------------------------- update_metadata --------------------------- *)

\* the files of directory d as dict items, in listing order
FilesIn(f, d) ==
  LET names == FileNames(f, d)
  IN  [i \in 1..Len(names) |-> Item(Join(d, names[i]), OsStat(f, Join(d, names[i])))]

DirItems(f, walked) == [i \in 1..Len(walked) |-> Item(walked[i], OsStat(f, walked[i]))]

\* the scan of one snapshot tree: every directory under snap_dir is walked
SnapshotScan(f, snap_dir) ==
  LET walked == OsWalk(f, snap_dir, {})
  IN  [files |-> Concat([i \in 1..Len(walked) |-> FilesIn(f, walked[i])]),
       dirs  |-> DirItems(f, walked),
       root  |-> snap_dir]

\* the directories whose device is not the device of the cache pool root
Foreign(f, cache_pool) ==
  {d \in DOMAIN f.dirs : f.dirs[d].st_dev # OsStat(f, cache_pool).st_dev}

\* a live scan that records no file of a foreign directory but still walks
\* below it
LiveScanDescends(f, cache_pool) ==
  LET foreign == Foreign(f, cache_pool)
      walked  == OsWalk(f, cache_pool, {})
  IN  [files |-> Concat([i \in 1..Len(walked) |->
                    IF walked[i] \in foreign THEN <<>> ELSE FilesIn(f, walked[i])]),
       dirs  |-> DirItems(f, walked),
       root  |-> cache_pool]

\* the scan of the live filesystem: a directory on another device is
\* recorded, its children are dropped from the walk and its files skipped
LiveScan(f, cache_pool) ==
  LET foreign == Foreign(f, cache_pool)
      walked  == OsWalk(f, cache_pool, foreign)
  IN  [files |-> Concat([i \in 1..Len(walked) |->
                    IF walked[i] \in foreign THEN <<>> ELSE FilesIn(f, walked[i])]),
       dirs  |-> DirItems(f, walked),
       root  |-> cache_pool]

HasSnapMain(f, cache_pool) == IsDir(f, SnapMain(cache_pool))

\* os.listdir(snap_main)
CurrentSnapshots(f, cache_pool) == ListDirSet(f, SnapMain(cache_pool))

\* a refresh that walks every snapshot present, cached or not
ScannedAll(cache_pool, f, metadata) ==
  IF HasSnapMain(f, cache_pool) THEN CurrentSnapshots(f, cache_pool) ELSE {}

\* the snapshot identifiers whose tree update_metadata walks
Scanned(cache_pool, f, metadata) ==
  IF HasSnapMain(f, cache_pool)
  THEN {n \in CurrentSnapshots(f, cache_pool) : n \notin DOMAIN metadata}
  ELSE {}

UpdateMetadata(cache_pool, f, metadata) ==
  LET current == CurrentSnapshots(f, cache_pool)
      scanned == Scanned(cache_pool, f, metadata)
      added   == [k \in DOMAIN metadata \cup scanned |->
                    IF k \in scanned
                    THEN SnapshotScan(f, SnapDir(cache_pool, k))
                    ELSE metadata[k]]
      kept    == [k \in {k \in DOMAIN added : k = "0" \/ k \in current} |-> added[k]]
      snaps   == IF HasSnapMain(f, cache_pool) THEN kept ELSE metadata
  IN  [k \in DOMAIN snaps \cup {"0"} |->
         IF k = "0" THEN LiveScan(f, cache_pool) ELSE snaps[k]]

(* --------------------------- get_filelists ---------------------------- *)

\* datetime.now(), in days: two days after the latest access time
Now == MaxATime + 2

ATime(o) == o.st.st_atime

\* position of x in the ascending list t, after the items not younger
InsertByATime(t, x) ==
  LET k == Cardinality({i \in 1..Len(t) : ATime(t[i]) <= ATime(x)})
  IN  SubSeq(t, 1, k) \o <<x>> \o SubSeq(t, k + 1, Len(t))

RECURSIVE SortedByATime(_)
\* sorted(l, key=atime_key): ascending and stable
SortedByATime(l) ==
  IF l = <<>> THEN <<>>
  ELSE InsertByATime(SortedByATime(SubSeq(l, 1, Len(l) - 1)), l[Len(l)])

LatestSnapNum(metadata) == StrMax(DOMAIN metadata)

\* the path looked up in the latest snapshot for live path fp
FpSnap(metadata, fp) ==
  StrReplace(fp, metadata["0"].root, metadata[LatestSnapNum(metadata)].root)

InSnap(metadata, o) ==
  HasKey(metadata[LatestSnapNum(metadata)].files, FpSnap(metadata, o.fp))

IsStale(o, stale_days) == stale_days > 0 /\ ATime(o) < Now - stale_days

\* a classifier that ignores the stale_days > 0 guard
GetFilelistsNoGuard(metadata, stale_days) ==
  LET live == metadata["0"].files
  IN  [live_not_in_snap |->
         SortedByATime(SelectSeq(live, LAMBDA o : ~InSnap(metadata, o))),
       live_in_snap     |->
         SortedByATime(SelectSeq(live, LAMBDA o : InSnap(metadata, o))),
       stale_in_snap    |-> SelectSeq(live, LAMBDA o :
                               InSnap(metadata, o) /\ ATime(o) < Now - stale_days)]

GetFilelists(metadata, stale_days) ==
  LET live == metadata["0"].files
  IN  [live_not_in_snap |->
         SortedByATime(SelectSeq(live, LAMBDA o : ~InSnap(metadata, o))),
       live_in_snap     |->
         SortedByATime(SelectSeq(live, LAMBDA o : InSnap(metadata, o))),
       stale_in_snap    |-> SelectSeq(live, LAMBDA o :
                               InSnap(metadata, o) /\ IsStale(o, stale_days))]

(* ----------------------------- rsync_move ----------------------------- *)

\* cache + "/." + live_fp.replace(cache, "")
RsyncFp(cache, live_fp) == cache \o <<"/", ".">> \o StrReplace(live_fp, cache, <<>>)

RECURSIVE Resolve(_)
\* the path a source argument names: its "/." components dropped
Resolve(p) ==
  IF Len(p) < 2 THEN p
  ELSE IF p[1] = "/" /\ p[2] = "." THEN Resolve(SubSeq(p, 3, Len(p)))
       ELSE <<p[1]>> \o Resolve(Tail(p))

\* the files rsync -a -x takes for a source argument: the file itself, or
\* every file of the same device below a directory
RsyncSources(f, rsync_fp) ==
  LET src == Resolve(rsync_fp)
  IN  IF src \in DOMAIN f.files THEN {src}
      ELSE IF src \in DOMAIN f.dirs
           THEN {p \in DOMAIN f.files :
                   IsPrefix(src \o <<"/">>, p) /\ f.files[p].st_dev = f.dirs[src].st_dev}
           ELSE {}

\* --remove-source-files: the filesystem after a transfer of srcs
RemoveFiles(f, srcs) ==
  [f EXCEPT !.files = [p \in DOMAIN f.files \ srcs |-> f.files[p]]]

\* -R: the path below the cache root, as mirrored under the backing root
Mirrored(cache, p) == SubSeq(p, Len(cache) + 1, Len(p))

\* a transfer wrapper that hands a path to rsync without looking for it
RsyncMoveUnseen(cache, live_fp, audit_mode, f, bk, rc) ==
  IF audit_mode
  THEN [ok |-> TRUE, invoked |-> FALSE, fs |-> f, backing |-> bk]
  ELSE [ok |-> rc = 0, invoked |-> TRUE,
        fs |-> IF rc = 0 THEN RemoveFiles(f, {live_fp}) ELSE f,
        backing |-> IF rc = 0 /\ live_fp \in DOMAIN f.files
                    THEN bk \cup {Mirrored(cache, live_fp)} ELSE bk]

\* a transfer wrapper that reports failure in audit mode
RsyncMoveAuditFails(cache, live_fp, audit_mode, f, bk, rc) ==
  [ok |-> ~audit_mode /\ (rc = 0 \/ ~Exists(f, live_fp)), invoked |-> FALSE,
   fs |-> f, backing |-> bk]

\* a transfer wrapper that runs rsync in audit mode too
RsyncMoveNoAudit(cache, live_fp, audit_mode, f, bk, rc) ==
  IF ~Exists(f, live_fp)
  THEN [ok |-> TRUE, invoked |-> FALSE, fs |-> f, backing |-> bk]
  ELSE IF rc = 0
  THEN LET srcs == RsyncSources(f, RsyncFp(cache, live_fp))
       IN  [ok |-> TRUE, invoked |-> TRUE, fs |-> RemoveFiles(f, srcs),
            backing |-> bk \cup {Mirrored(cache, p) : p \in srcs}]
  ELSE [ok |-> FALSE, invoked |-> TRUE, fs |-> f, backing |-> bk]

\* rsync_move(cache, backing, live_fp, audit_mode) on filesystem f with the
\* backing pool holding bk; rc is the exit status of rsync when it is run.
\* The result is the returned flag ok, whether rsync was invoked, and the
\* filesystem and backing pool afterwards.
RsyncMove(cache, live_fp, audit_mode, f, bk, rc) ==
  IF ~Exists(f, live_fp)
  THEN [ok |-> TRUE, invoked |-> FALSE, fs |-> f, backing |-> bk]
  ELSE IF audit_mode
  THEN [ok |-> TRUE, invoked |-> FALSE, fs |-> f, backing |-> bk]
  ELSE IF rc = 0
  THEN LET srcs == RsyncSources(f, RsyncFp(cache, live_fp))
       IN  [ok |-> TRUE, invoked |-> TRUE, fs |-> RemoveFiles(f, srcs),
            backing |-> bk \cup {Mirrored(cache, p) : p \in srcs}]
  ELSE [ok |-> FALSE, invoked |-> TRUE, fs |-> f, backing |-> bk]

(* ------------------------------- state -------------------------------- *)

VARIABLES
  fs,          \* the filesystem holding the cache pool
  backing,     \* the paths transferred to the backing pool
  disk,        \* the file at metadata_path
  diskAudit,   \* the file at metadata_path + "_audit.json"
  usage,       \* shutil.disk_usage: [total, other], other = bytes not in live files
  args,        \* threshold, metadata_path, audit_mode, stale_atime_days
  pc,          \* position of main
  metadata,    \* the in-memory store
  loc,         \* the local variables of main
  attempts,    \* history: the calls of rsync_move, in order
  saves,       \* history: the targets of save_metadata, in order
  scanned,     \* history: snapshot ids walked by the latest update_metadata
  fs0,         \* the filesystem when the run started
  disk0,       \* the file at metadata_path when the run started
  before,      \* refresh harness: the store before the latest refresh, and
               \* whether that refresh followed another with no change between
  changes,     \* refresh harness: external changes made so far
  refreshedAt  \* refresh harness: value of changes at the latest refresh

vars == <<fs, backing, disk, diskAudit, usage, args, pc, metadata, loc,
          attempts, saves, scanned, fs0, disk0, before, changes, refreshedAt>>

(* ------------------------- input filesystems -------------------------- *)

Last(p) == p[Len(p)]

\* scandir orders the model draws from
ScanOrders ==
  { <<"a", "b", "c", "d", "e", ".snapshots", "9", "10", "snapshot">>,
    <<"snapshot", "10", "9", ".snapshots", "e", "d", "c", "b", "a">> }

SnapIds == {"9", "10"}

\* the live files of the eviction runs, all in the cache pool root
LiveNames == {"a", "b", "e"}

\* the live files a snapshot of the eviction runs holds a copy of
SnapContent(n) == IF n = "9" THEN {"a", "b"} ELSE {"b"}

\* a cache pool with three live files and the snapshots snaps, kept in a
\* subvolume (device MaxDev) when hasDir
RunFs(sz, at, hasDir, snaps, order) ==
  LET live  == {Join(CachePool, x) : x \in LiveNames}
      snapf == IF hasDir
               THEN UNION {{Join(SnapDir(CachePool, n), x) : x \in SnapContent(n)} : n \in snaps}
               ELSE {}
      snapd == IF hasDir
               THEN {SnapMain(CachePool)}
                      \cup {Join(SnapMain(CachePool), n) : n \in snaps}
                      \cup {SnapDir(CachePool, n) : n \in snaps}
               ELSE {}
  IN  [dirs  |-> [p \in {CachePool} \cup snapd |->
                    Stat(IF p = CachePool THEN 1 ELSE MaxDev, 0, 0)],
       files |-> [p \in live \cup snapf |->
                    Stat(IF p \in live THEN 1 ELSE MaxDev, sz[Last(p)], at[Last(p)])],
       order |-> order]

RunFsFamily ==
  { RunFs(sz, at, c[1], c[2], <<"a", "b", "e", ".snapshots", "9", "10", "snapshot">>) :
      sz \in [LiveNames -> {1, MaxSize}],
      at \in {t \in [LiveNames -> 0..MaxATime] : t["e"] = 0},
      c \in {<<FALSE, {}>>} \cup {<<TRUE, S>> : S \in (SUBSET SnapIds) \ {{}}} }

\* capacity of the pool: the live files never fill it
PoolTotal == 3 * MaxSize + 2

\* sum of st_size over the files of an inventory
RECURSIVE SumSizes(_)
SumSizes(d) == IF d = <<>> THEN 0 ELSE d[1].st.st_size + SumSizes(Tail(d))

RECURSIVE SumOver(_, _)
SumOver(f, S) ==
  IF S = {} THEN 0
  ELSE LET p == CHOOSE q \in S : TRUE IN f[p].st_size + SumOver(f, S \ {p})

\* bytes in use on the device of the cache pool root
Used(f, u) ==
  u.other + SumOver(f.files, {p \in DOMAIN f.files :
                                f.files[p].st_dev = f.dirs[CachePool].st_dev})

NoLoc ==
  [total_size |-> 0, used_size |-> 0, live_size |-> 0, start_size |-> 0,
   live_not_in_snap |-> <<>>, live_in_snap |-> <<>>, stale_in_snap |-> <<>>,
   live_files |-> <<>>, i |-> 0, move_count |-> 0,
   stale_moved_size |-> 0, stale_moved_count |-> 0]

Thresholds == {[num |-> 1, den |-> 8], [num |-> 1, den |-> 2], [num |-> 3, den |-> 4]}

\* --stale: disabled, every file stale, every file but the latest read stale
StaleChoices == {-1, 1, 2}

Init ==
  /\ fs \in RunFsFamily
  /\ backing = {}
  /\ disk \in {NoFile, CorruptFile,
               SavedFile(UpdateMetadata(CachePool, fs, EmptyStore))}
  /\ diskAudit = NoFile
  /\ usage \in {[total |-> PoolTotal, other |-> o] : o \in {0, 1}}
  /\ args \in [threshold : Thresholds, metadata_path : BOOLEAN,
               audit_mode : BOOLEAN, stale_atime_days : StaleChoices]
  /\ (~args.metadata_path => disk = NoFile)
  /\ pc = "start"
  /\ metadata = EmptyStore
  /\ loc = NoLoc
  /\ attempts = <<>>
  /\ saves = <<>>
  /\ scanned = {}
  /\ fs0 = fs
  /\ disk0 = disk
  /\ before = [repeat |-> FALSE, store |-> EmptyStore]
  /\ changes = 0
  /\ refreshedAt = -1

(* -------------------------------- main -------------------------------- *)

\* x / total < threshold
Under(x, total, t) == x * t.den < t.num * total

\* the two classes concatenated the other way round
LiveFilesSnapFirst(l) == l.live_in_snap \o l.live_not_in_snap

\* line 233
LiveFiles(l) == l.live_not_in_snap \o l.live_in_snap

\* a primary pass that never tests the ratio
ShouldStopNever(live_size, total_size, threshold) == FALSE

\* lines 242-244: the test that ends the primary pass
ShouldStop(live_size, total_size, threshold) == Under(live_size, total_size, threshold)

\* lines 194-201
CheckUsage ==
  /\ pc = "start"
  /\ loc' = [loc EXCEPT !.total_size = usage.total, !.used_size = Used(fs, usage)]
  /\ pc' = IF Under(Used(fs, usage), usage.total, args.threshold) THEN "exit" ELSE "load"
  /\ UNCHANGED <<fs, backing, disk, diskAudit, usage, args, metadata, attempts,
                 saves, scanned, fs0, disk0, before, changes, refreshedAt>>

\* lines 203-207
LoadStep ==
  /\ pc = "load"
  /\ metadata' = IF args.metadata_path THEN LoadMetadata(disk) ELSE EmptyStore
  /\ pc' = "update"
  /\ UNCHANGED <<fs, backing, disk, diskAudit, usage, args, loc, attempts,
                 saves, scanned, fs0, disk0, before, changes, refreshedAt>>

\* lines 209-210
UpdateStep ==
  /\ pc = "update"
  /\ metadata' = UpdateMetadata(CachePool, fs, metadata)
  /\ scanned' = Scanned(CachePool, fs, metadata)
  /\ pc' = "save"
  /\ UNCHANGED <<fs, backing, disk, diskAudit, usage, args, loc, attempts,
                 saves, fs0, disk0, before, changes, refreshedAt>>

\* lines 212-214
SaveStep ==
  /\ pc = "save"
  /\ IF args.metadata_path
     THEN disk' = SavedFile(metadata) /\ saves' = Append(saves, "metadata_path")
     ELSE UNCHANGED <<disk, saves>>
  /\ pc' = "size"
  /\ UNCHANGED <<fs, backing, diskAudit, usage, args, metadata, loc, attempts,
                 scanned, fs0, disk0, before, changes, refreshedAt>>

\* lines 216-224
CheckLive ==
  /\ pc = "size"
  /\ LET live_size == SumSizes(metadata["0"].files)
     IN  /\ loc' = [loc EXCEPT !.live_size = live_size]
         /\ pc' = IF Under(live_size, loc.total_size, args.threshold)
                  THEN "exit" ELSE "classify"
  /\ UNCHANGED <<fs, backing, disk, diskAudit, usage, args, metadata, attempts,
                 saves, scanned, fs0, disk0, before, changes, refreshedAt>>

\* lines 226-239
ClassifyStep ==
  /\ pc = "classify"
  /\ LET l == GetFilelists(metadata, args.stale_atime_days)
     IN  loc' = [loc EXCEPT !.live_not_in_snap = l.live_not_in_snap,
                            !.live_in_snap = l.live_in_snap,
                            !.stale_in_snap = l.stale_in_snap,
                            !.live_files = LiveFiles(l),
                            !.move_count = 0,
                            !.start_size = loc.live_size,
                            !.i = 1]
  /\ pc' = "primary"
  /\ UNCHANGED <<fs, backing, disk, diskAudit, usage, args, metadata, attempts,
                 saves, scanned, fs0, disk0, before, changes, refreshedAt>>

\* a loop that takes every transfer for a success
MovedAlways(r) == TRUE

\* lines 251 and 269: the test of rsync_move's result
Moved(r) == r.ok

\* a loop that tries a failed candidate again
NextIndexRetry(i, r) == IF r.ok THEN i + 1 ELSE i

\* lines 241 and 268: the for loop goes on to the next candidate
NextIndex(i, r) == i + 1

\* a stale pass that counts a file whether or not it was still in the inventory
StaleCountedAlways(files, fp) == TRUE

\* line 270: pop(fp, None) is not None
StaleCounted(files, fp) == HasKey(files, fp)

\* the exit statuses rsync can end with: 0, or 1 while failures are left
ExitCodes ==
  IF Cardinality({i \in 1..Len(attempts) : ~attempts[i].ok}) < MaxFailures
  THEN {0, 1} ELSE {0}

Attempt(pass, o, r) ==
  [pass |-> pass, fp |-> o.fp, st |-> o.st, live_size |-> loc.live_size,
   ok |-> r.ok, invoked |-> r.invoked]

\* lines 241-249: the break of the primary pass
PrimaryBreak ==
  /\ pc = "primary"
  /\ loc.i <= Len(loc.live_files)
  /\ ShouldStop(loc.live_size, loc.total_size, args.threshold)
  /\ pc' = "stale"
  /\ loc' = [loc EXCEPT !.i = 1, !.stale_moved_size = 0, !.stale_moved_count = 0]
  /\ UNCHANGED <<fs, backing, disk, diskAudit, usage, args, metadata, attempts,
                 saves, scanned, fs0, disk0, before, changes, refreshedAt>>

\* lines 256-257: the primary pass runs out of candidates
PrimaryExhausted ==
  /\ pc = "primary"
  /\ loc.i > Len(loc.live_files)
  /\ pc' = "stale"
  /\ loc' = [loc EXCEPT !.i = 1, !.stale_moved_size = 0, !.stale_moved_count = 0]
  /\ UNCHANGED <<fs, backing, disk, diskAudit, usage, args, metadata, attempts,
                 saves, scanned, fs0, disk0, before, changes, refreshedAt>>

\* lines 251-254: one candidate of the primary pass
PrimaryMove ==
  /\ pc = "primary"
  /\ loc.i <= Len(loc.live_files)
  /\ ~ShouldStop(loc.live_size, loc.total_size, args.threshold)
  /\ \E rc \in ExitCodes :
       LET o == loc.live_files[loc.i]
           r == RsyncMove(CachePool, o.fp, args.audit_mode, fs, backing, rc)
       IN  /\ fs' = r.fs
           /\ backing' = r.backing
           /\ attempts' = Append(attempts, Attempt("primary", o, r))
           /\ IF Moved(r)
              THEN /\ loc' = [loc EXCEPT !.live_size = @ - o.st.st_size,
                                         !.move_count = @ + 1,
                                         !.i = NextIndex(@, r)]
                   /\ metadata' = [metadata EXCEPT !["0"].files = Pop(@, o.fp)]
              ELSE /\ loc' = [loc EXCEPT !.i = NextIndex(@, r)]
                   /\ UNCHANGED metadata
  /\ UNCHANGED <<disk, diskAudit, usage, args, pc, saves, scanned, fs0, disk0, before,
                 changes, refreshedAt>>

\* lines 268-272: one candidate of the stale pass
StaleMove ==
  /\ pc = "stale"
  /\ loc.i <= Len(loc.stale_in_snap)
  /\ \E rc \in ExitCodes :
       LET o == loc.stale_in_snap[loc.i]
           r == RsyncMove(CachePool, o.fp, args.audit_mode, fs, backing, rc)
       IN  /\ fs' = r.fs
           /\ backing' = r.backing
           /\ attempts' = Append(attempts, Attempt("stale", o, r))
           /\ IF Moved(r)
              THEN /\ loc' = IF StaleCounted(metadata["0"].files, o.fp)
                             THEN [loc EXCEPT !.stale_moved_size = @ + o.st.st_size,
                                              !.stale_moved_count = @ + 1,
                                              !.i = NextIndex(@, r)]
                             ELSE [loc EXCEPT !.i = NextIndex(@, r)]
                   /\ metadata' = [metadata EXCEPT !["0"].files = Pop(@, o.fp)]
              ELSE /\ loc' = [loc EXCEPT !.i = NextIndex(@, r)]
                   /\ UNCHANGED metadata
  /\ UNCHANGED <<disk, diskAudit, usage, args, pc, saves, scanned, fs0, disk0, before,
                 changes, refreshedAt>>

\* line 268: the stale pass runs out of candidates
StaleDone ==
  /\ pc = "stale"
  /\ loc.i > Len(loc.stale_in_snap)
  /\ pc' = "final"
  /\ UNCHANGED <<fs, backing, disk, diskAudit, usage, args, metadata, loc,
                 attempts, saves, scanned, fs0, disk0, before, changes, refreshedAt>>

\* lines 279-284
FinalSave ==
  /\ pc = "final"
  /\ IF ~args.metadata_path
     THEN UNCHANGED <<disk, diskAudit, saves>>
     ELSE IF ~args.audit_mode
     THEN /\ disk' = SavedFile(metadata)
          /\ saves' = Append(saves, "metadata_path")
          /\ UNCHANGED diskAudit
     ELSE /\ diskAudit' = SavedFile(metadata)
          /\ saves' = Append(saves, "metadata_path_audit.json")
          /\ UNCHANGED disk
  /\ pc' = "done"
  /\ UNCHANGED <<fs, backing, usage, args, metadata, loc, attempts, scanned,
                 fs0, disk0, before, changes, refreshedAt>>

Next ==
  \/ CheckUsage
  \/ LoadStep
  \/ UpdateStep
  \/ SaveStep
  \/ CheckLive
  \/ ClassifyStep
  \/ PrimaryBreak
  \/ PrimaryExhausted
  \/ PrimaryMove
  \/ StaleMove
  \/ StaleDone
  \/ FinalSave

\* one invocation of main on every input of the family
Spec == Init /\ [][Next]_vars

(* -------------------------- refresh harness --------------------------- *)
(* update_metadata called again and again on one store, while snapshots    *)
(* are taken and removed between the calls.                                *)

\* a cache pool with files a and c in its root, an optional directory d
\* (device devD) holding a file and an optional directory e (device devE)
\* holding a file, and snapshots snaps (device devS, as the directory that
\* holds them) whose trees hold copies of a and c and, when hasM, a
\* directory d (device devM) holding a file
RefreshFs(hasD, devD, hasE, devE, hasDir, snaps, devS, hasM, devM, order) ==
  LET d     == Join(CachePool, "d")
      e     == Join(d, "e")
      main  == SnapMain(CachePool)
      ids   == IF hasDir THEN snaps ELSE {}
      roots == {SnapDir(CachePool, n) : n \in ids}
      devOf == [p \in {CachePool} |-> 1]
               @@ [p \in (IF hasD THEN {d} ELSE {}) |-> devD]
               @@ [p \in (IF hasD /\ hasE THEN {e} ELSE {}) |-> devE]
               @@ [p \in (IF hasDir THEN {main} ELSE {})
                           \cup {Join(main, n) : n \in ids} |-> devS]
               @@ [p \in roots |-> devS]
               @@ [p \in (IF hasM THEN {Join(r, "d") : r \in roots} ELSE {}) |-> devM]
      names == [p \in {CachePool} \cup roots |-> {"a", "c"}]
               @@ [p \in DOMAIN devOf \ ({CachePool} \cup roots) |->
                     IF p \in {main} \cup {Join(main, n) : n \in ids} THEN {} ELSE {"a"}]
      fps   == UNION {{<<p, Join(p, x)>> : x \in names[p]} : p \in DOMAIN devOf}
  IN  [dirs  |-> [p \in DOMAIN devOf |-> Stat(devOf[p], 0, 0)],
       files |-> [q \in {t[2] : t \in fps} |->
                    Stat(devOf[SubSeq(q, 1, Len(q) - 2)], 1, 0)],
       order |-> order]

RefreshFsFamily ==
  { RefreshFs(hasD, devD, hasE, devE, hasDir, snaps, devS, hasM, devM, order) :
      hasD \in BOOLEAN, devD \in 1..MaxDev, hasE \in BOOLEAN, devE \in 1..MaxDev,
      hasDir \in BOOLEAN, snaps \in SUBSET SnapIds, devS \in 1..MaxDev,
      hasM \in BOOLEAN, devM \in 1..MaxDev,
      order \in ScanOrders }

InitRefresh ==
  /\ fs \in RefreshFsFamily
  /\ backing = {}
  /\ disk = NoFile
  /\ diskAudit = NoFile
  /\ usage = [total |-> PoolTotal, other |-> 0]
  /\ args = [threshold |-> [num |-> 1, den |-> 2], metadata_path |-> FALSE,
             audit_mode |-> FALSE, stale_atime_days |-> -1]
  /\ pc = "harness"
  /\ metadata = EmptyStore
  /\ loc = NoLoc
  /\ attempts = <<>>
  /\ saves = <<>>
  /\ scanned = {}
  /\ fs0 = fs
  /\ disk0 = disk
  /\ before = [repeat |-> FALSE, store |-> EmptyStore]
  /\ changes = 0
  /\ refreshedAt = -1

\* the filesystem without the tree rooted at top
RemoveTree(f, top) ==
  [f EXCEPT !.dirs  = [p \in {q \in DOMAIN f.dirs : ~IsPrefix(top, q)} |-> f.dirs[p]],
            !.files = [p \in {q \in DOMAIN f.files : ~IsPrefix(top, q)} |-> f.files[p]]]

\* a call of update_metadata(cache_pool, metadata)
Refresh ==
  /\ pc = "harness"
  /\ metadata' = UpdateMetadata(CachePool, fs, metadata)
  /\ scanned' = Scanned(CachePool, fs, metadata)
  /\ refreshedAt' = changes
  /\ before' = [repeat |-> refreshedAt = changes, store |-> metadata]
  /\ UNCHANGED <<fs, backing, disk, diskAudit, usage, args, pc, loc, attempts,
                 saves, fs0, disk0, changes>>

\* the snapshot tool removes snapshot n
DeleteSnapshot(n) ==
  /\ pc = "harness"
  /\ changes < MaxChanges
  /\ HasSnapMain(fs, CachePool)
  /\ n \in CurrentSnapshots(fs, CachePool)
  /\ fs' = RemoveTree(fs, Join(SnapMain(CachePool), n))
  /\ changes' = changes + 1
  /\ UNCHANGED <<backing, disk, diskAudit, usage, args, pc, metadata, loc,
                 attempts, saves, scanned, fs0, disk0, before, refreshedAt>>

\* the snapshot-holding directory is removed with all its snapshots
RemoveSnapMain ==
  /\ pc = "harness"
  /\ changes < MaxChanges
  /\ HasSnapMain(fs, CachePool)
  /\ fs' = RemoveTree(fs, SnapMain(CachePool))
  /\ changes' = changes + 1
  /\ UNCHANGED <<backing, disk, diskAudit, usage, args, pc, metadata, loc,
                 attempts, saves, scanned, fs0, disk0, before, refreshedAt>>

\* the snapshot tool takes snapshot n: a copy of the files of the pool root
TakeSnapshot(n) ==
  /\ pc = "harness"
  /\ changes < MaxChanges
  /\ HasSnapMain(fs, CachePool)
  /\ n \notin CurrentSnapshots(fs, CachePool)
  /\ LET main == SnapMain(CachePool)
         dev  == fs.dirs[main].st_dev
         root == SnapDir(CachePool, n)
         live == {x \in {"a", "c"} : Join(CachePool, x) \in DOMAIN fs.files}
     IN  fs' = [fs EXCEPT
                  !.dirs  = [p \in {Join(main, n), root} |-> Stat(dev, 0, 0)] @@ @,
                  !.files = [p \in {Join(root, x) : x \in live} |->
                               [fs.files[Join(CachePool, Last(p))] EXCEPT !.st_dev = dev]]
                            @@ @]
  /\ changes' = changes + 1
  /\ UNCHANGED <<backing, disk, diskAudit, usage, args, pc, metadata, loc,
                 attempts, saves, scanned, fs0, disk0, before, refreshedAt>>

\* get_filelists is called on the refreshed store, as main does after
\* update_metadata
Classify ==
  /\ pc = "harness"
  /\ refreshedAt = changes
  /\ LET l == GetFilelists(metadata, args.stale_atime_days)
     IN  loc' = [loc EXCEPT !.live_not_in_snap = l.live_not_in_snap,
                            !.live_in_snap = l.live_in_snap,
                            !.stale_in_snap = l.stale_in_snap,
                            !.live_files = LiveFiles(l)]
  /\ pc' = "classified"
  /\ UNCHANGED <<fs, backing, disk, diskAudit, usage, args, metadata, attempts,
                 saves, scanned, fs0, disk0, before, changes, refreshedAt>>

NextRefresh ==
  \/ Refresh
  \/ Classify
  \/ \E n \in SnapIds : DeleteSnapshot(n)
  \/ RemoveSnapMain
  \/ \E n \in SnapIds : TakeSnapshot(n)

\* repeated refreshes of one store over a changing set of snapshots
SpecRefresh == InitRefresh /\ [][NextRefresh]_vars

(* ------------------------------ claims -------------------------------- *)

\* the calls of rsync_move made by the primary pass, in order
PrimaryAttempts == SelectSeq(attempts, LAMBDA a : a.pass = "primary")

\* the candidate lists have been computed
Classified == pc \in {"primary", "stale", "final", "done"}

\* the primary pass is over
PrimaryOver == pc \in {"stale", "final", "done"}

Ascending(l) == \A i, j \in 1..Len(l) : i < j => ATime(l[i]) <= ATime(l[j])

\* the numeric value of a snapshot identifier
IdNum(n) == CASE n = "9" -> 9 [] n = "10" -> 10

\* the most recent snapshot present on filesystem f
NewestSnapshot(f) ==
  CHOOSE n \in CurrentSnapshots(f, CachePool) :
    \A k \in CurrentSnapshots(f, CachePool) : IdNum(k) <= IdNum(n)

\* a snapshot exists and the most recent one holds a copy of live file p
InNewestSnapshot(f, p) ==
  /\ HasSnapMain(f, CachePool)
  /\ CurrentSnapshots(f, CachePool) # {}
  /\ SnapDir(CachePool, NewestSnapshot(f)) \o Mirrored(CachePool, p) \in DOMAIN f.files

\* the live files of filesystem f: the files on the device of the pool root
LiveFilesOf(f) ==
  {p \in DOMAIN f.files : f.files[p].st_dev = f.dirs[CachePool].st_dev}

\* C1: in the primary pass every candidate of the not-in-snapshot list is
\* attempted before any candidate of the in-snapshot list, and inside each
\* list the attempts go by non-decreasing access time: when a candidate of
\* the in-snapshot list is attempted, every candidate of the not-in-snapshot
\* list has been attempted before it.
C1_PrimaryOrder ==
  LET pa    == PrimaryAttempts
      notIn == Keys(loc.live_not_in_snap)
      inS   == Keys(loc.live_in_snap)
  IN  \A j \in 1..Len(pa) :
        /\ pa[j].fp \in notIn \cup inS
        /\ pa[j].fp \in inS =>
             \A f \in notIn : \E k \in 1..(j - 1) : pa[k].fp = f
        /\ \A k \in 1..(j - 1) :
             /\ pa[k].fp \in inS => pa[j].fp \in inS
             /\ (pa[k].fp \in inS <=> pa[j].fp \in inS) =>
                  pa[k].st.st_atime <= pa[j].st.st_atime

\* two not-in-snapshot candidates of different access times were attempted
\* and then an in-snapshot candidate
C1_Witness ==
  LET pa == PrimaryAttempts
  IN  /\ Len(pa) = 3
      /\ pa[1].fp \in Keys(loc.live_not_in_snap)
      /\ pa[2].fp \in Keys(loc.live_not_in_snap)
      /\ pa[1].st.st_atime < pa[2].st.st_atime
      /\ pa[3].fp \in Keys(loc.live_in_snap)

\* C2: the primary pass never calls the transfer for a candidate when
\* live_size / total_size before that candidate is under the threshold; the
\* candidates attempted are a prefix of the primary list, and when the pass
\* is over either the ratio is under the threshold or the list is exhausted.
C2_ThresholdStop ==
  LET pa == PrimaryAttempts
  IN  /\ \A j \in 1..Len(pa) :
           /\ ~Under(pa[j].live_size, loc.total_size, args.threshold)
           /\ j <= Len(loc.live_files)
           /\ pa[j].fp = loc.live_files[j].fp
      /\ PrimaryOver =>
           \/ Len(pa) = Len(loc.live_files)
           \/ Under(loc.live_size, loc.total_size, args.threshold)

\* the pass stopped on the ratio after a transfer, with candidates left
C2_Witness ==
  /\ PrimaryOver
  /\ Len(PrimaryAttempts) >= 1
  /\ Len(PrimaryAttempts) < Len(loc.live_files)

\* C3: when a run with a stale threshold > 0 has ended, every live file that
\* is in the latest snapshot and was last read before now minus the stale
\* days has had a transfer attempt, whatever the usage ratio was.
C3_StaleAlwaysAttempted ==
  (pc \in {"exit", "done"} /\ args.stale_atime_days > 0) =>
    \A p \in LiveFilesOf(fs0) :
      (InNewestSnapshot(fs0, p)
         /\ fs0.files[p].st_atime < Now - args.stale_atime_days) =>
        \E i \in 1..Len(attempts) : attempts[i].fp = p

\* C4: each of the three lists returned by get_filelists has non-decreasing
\* access times.
C4_ListsAscending ==
  Classified =>
    /\ Ascending(loc.live_not_in_snap)
    /\ Ascending(loc.live_in_snap)
    /\ Ascending(loc.stale_in_snap)

\* number of items of list l with path fp
Count(l, fp) == Cardinality({i \in 1..Len(l) : l[i].fp = fp})

Items(l) == {l[i] : i \in 1..Len(l)}

\* C5: right after get_filelists, every file of the "0" inventory is exactly
\* once in the two lists not-in-snapshot and in-snapshot taken together, the
\* two lists hold nothing else, and a file is in the stale list only if it
\* is in the in-snapshot list, the stale threshold is > 0 and its access
\* time is before now minus the stale days.
C5_Partition ==
  (pc = "primary" /\ attempts = <<>>) =>
    /\ \A o \in Items(metadata["0"].files) :
         Count(loc.live_not_in_snap, o.fp) + Count(loc.live_in_snap, o.fp) = 1
    /\ Items(loc.live_not_in_snap) \cup Items(loc.live_in_snap)
         \subseteq Items(metadata["0"].files)
    /\ \A o \in Items(loc.stale_in_snap) :
         /\ o \in Items(loc.live_in_snap)
         /\ args.stale_atime_days > 0
         /\ o.st.st_atime < Now - args.stale_atime_days

\* all three lists are non-empty and an in-snapshot file is not stale
C5_Witness ==
  /\ pc = "primary" /\ attempts = <<>>
  /\ loc.live_not_in_snap # <<>>
  /\ loc.stale_in_snap # <<>>
  /\ Len(loc.stale_in_snap) < Len(loc.live_in_snap)

\* C6: in a run with audit mode on and a metadata path, every save goes to
\* the audit path and the file at the metadata path stays as it was.
C6_AuditNeverWritesMetadataPath ==
  (args.audit_mode /\ args.metadata_path) =>
    /\ disk = disk0
    /\ \A i \in 1..Len(saves) : saves[i] = "metadata_path_audit.json"

\* C7: in a run with audit mode on, rsync is never invoked, the filesystem
\* and the backing pool stay as they were, and the three lists main holds
\* after the classification are those get_filelists gives on the refreshed
\* store of that filesystem.
C7_AuditNoEffect ==
  args.audit_mode =>
    /\ \A i \in 1..Len(attempts) : ~attempts[i].invoked
    /\ fs = fs0
    /\ backing = {}
    /\ (pc = "primary" /\ attempts = <<>>) =>
         LET l == GetFilelists(
                    UpdateMetadata(CachePool, fs0,
                      IF args.metadata_path THEN LoadMetadata(disk0) ELSE EmptyStore),
                    args.stale_atime_days)
         IN  /\ loc.live_not_in_snap = l.live_not_in_snap
             /\ loc.live_in_snap = l.live_in_snap
             /\ loc.stale_in_snap = l.stale_in_snap

\* an audit run has ended after counting moves in both passes
C7_Witness ==
  /\ args.audit_mode
  /\ pc = "done"
  /\ loc.move_count >= 1
  /\ loc.stale_moved_count >= 1

\* update_metadata has returned and nothing has changed since
Refreshed == pc = "harness" /\ refreshedAt = changes

\* C8: after update_metadata, every identifier of the store but "0" is a
\* snapshot present in the snapshot-holding directory (none, when that
\* directory does not exist).
C8_OnlyCurrentSnapshots ==
  Refreshed =>
    DOMAIN metadata \ {"0"} \subseteq
      (IF HasSnapMain(fs, CachePool) THEN CurrentSnapshots(fs, CachePool) ELSE {})

\* C9: a call of update_metadata that follows another one with no change in
\* between walks no snapshot, leaves every entry but "0" as it was, and
\* rebuilds "0" with the same content.
C9_RefreshTwice ==
  (Refreshed /\ before.repeat) =>
    /\ scanned = {}
    /\ DOMAIN metadata = DOMAIN before.store
    /\ \A k \in DOMAIN metadata : metadata[k] = before.store[k]

\* a repeated refresh found snapshots in the store and live files in the pool
C9_Witness ==
  /\ Refreshed
  /\ before.repeat
  /\ HasSnapMain(fs, CachePool)
  /\ DOMAIN metadata \ {"0"} # {}
  /\ metadata["0"].files # <<>>

\* path q lies below directory d
Below(d, q) == IsPrefix(d \o <<"/">>, q)

\* C10: after update_metadata, for every directory D under the cache pool on
\* another device than the pool root, the "0" inventory holds no file below
\* D and no directory below D was walked.
C10_DeviceBoundary ==
  Refreshed =>
    \A D \in Foreign(fs, CachePool) :
      Below(CachePool, D) =>
        /\ \A o \in Items(metadata["0"].files) : ~Below(D, o.fp)
        /\ \A o \in Items(metadata["0"].dirs) : ~Below(D, o.fp)

\* a directory on another device holds a file and a directory that is back
\* on the device of the pool root, which holds a file too
C10_Witness ==
  /\ Refreshed
  /\ \E D \in Foreign(fs, CachePool) :
       /\ Below(CachePool, D)
       /\ \E q \in DOMAIN fs.files : Below(D, q) /\ Len(q) = Len(D) + 2
       /\ \E E \in DOMAIN fs.dirs :
            /\ Below(D, E)
            /\ E \notin Foreign(fs, CachePool)
            /\ \E q \in DOMAIN fs.files : Below(E, q)

\* what the run counts as moved or still to move
Tracked ==
  [live_size |-> loc.live_size, move_count |-> loc.move_count,
   stale_moved_size |-> loc.stale_moved_size,
   stale_moved_count |-> loc.stale_moved_count]

\* C11: a transfer that fails, in the primary or the stale pass, leaves the
\* "0" inventory, the filesystem, liveSize and the moved counters as they
\* were, and the loop stays in its pass and goes on to the next candidate.
C11_FailedTransfer ==
  [][(attempts' # attempts /\ ~Last(attempts').ok) =>
       /\ metadata' = metadata
       /\ fs' = fs
       /\ backing' = backing
       /\ Tracked' = Tracked
       /\ pc' = pc
       /\ loc'.i = loc.i + 1]_vars

\* a transfer failed, its file is still on the live
\* filesystem and in the inventory, and a later candidate was attempted
C11_Witness ==
  \E j \in 1..Len(attempts) :
    /\ ~attempts[j].ok
    /\ attempts[j].invoked
    /\ j < Len(attempts)
    /\ Exists(fs, attempts[j].fp)
    /\ HasKey(metadata["0"].files, attempts[j].fp)

(* ---------------- a run beside other users of the pool ---------------- *)

\* a real or audit run, without a metadata file, on a pool that holds
\* nothing but its live files
InitConcurrent ==
  /\ Init
  /\ usage.other = 0
  /\ ~args.metadata_path
  /\ args.threshold = [num |-> 1, den |-> 2]

\* another process writes to the pool, or deletes what it wrote, while the
\* two loops of main run: the bytes in use outside the inventory change
ExternalWrite ==
  /\ pc \in {"primary", "stale"}
  /\ changes < MaxChanges
  /\ \E v \in 0..MaxSize :
       /\ v # usage.other
       /\ usage' = [usage EXCEPT !.other = v]
  /\ changes' = changes + 1
  /\ UNCHANGED <<fs, backing, disk, diskAudit, args, pc, metadata, loc, attempts,
                 saves, scanned, fs0, disk0, before, refreshedAt>>

\* another process deletes a live file while the two loops of main run
ExternalDelete(p) ==
  /\ pc \in {"primary", "stale"}
  /\ changes < MaxChanges
  /\ p \in DOMAIN fs.files
  /\ fs' = RemoveFiles(fs, {p})
  /\ changes' = changes + 1
  /\ UNCHANGED <<backing, disk, diskAudit, usage, args, pc, metadata, loc,
                 attempts, saves, scanned, fs0, disk0, before, refreshedAt>>

NextConcurrent ==
  \/ Next
  \/ ExternalWrite
  \/ \E n \in LiveNames : ExternalDelete(Join(CachePool, n))

SpecConcurrent == InitConcurrent /\ [][NextConcurrent]_vars

\* C12: before each candidate of the primary pass of a real run, the test
\* that ends the pass gives the answer that the usage of the pool measured
\* at that moment gives, whatever other processes wrote or freed meanwhile.
C12_RatioRemeasured ==
  (pc = "primary" /\ ~args.audit_mode /\ loc.i <= Len(loc.live_files)) =>
    (ShouldStop(loc.live_size, loc.total_size, args.threshold)
       <=> Under(Used(fs, usage), usage.total, args.threshold))

\* C13: the snapshot that get_filelists classifies against is the one with
\* the greatest identifier by numeric value, and entry "0" is taken only when
\* the store holds no snapshot: the in-snapshot list holds exactly the files
\* with a counterpart in that snapshot.
C13_LatestNumeric ==
  (pc = "primary" /\ attempts = <<>>) =>
    LET ids == DOMAIN metadata \ {"0"}
        latest == LatestSnapNum(metadata)
    IN  IF ids = {} THEN latest = "0"
        ELSE /\ latest \in ids
             /\ \A n \in ids : IdNum(n) <= IdNum(latest)
             /\ \A o \in Items(metadata["0"].files) :
                  o \in Items(loc.live_in_snap) <=> InNewestSnapshot(fs, o.fp)

\* the run was given a metadata path that holds no file, or a file that
\* cannot be parsed
NothingToLoad == args.metadata_path /\ disk0.state \in {"absent", "corrupt"}

\* C14: load_metadata returns the empty store for an absent or an unparsable
\* file; the run then goes on as a first run: update_metadata walks every
\* snapshot present and rebuilds "0" from the live walk, and the store the
\* run works with holds exactly "0" and those snapshots.
C14_LoadEmpty ==
  NothingToLoad =>
    /\ LoadMetadata(disk0) = EmptyStore
    /\ pc = "update" => metadata = EmptyStore
    /\ pc \notin {"start", "load", "update", "exit"} =>
         /\ scanned = (IF HasSnapMain(fs0, CachePool)
                       THEN CurrentSnapshots(fs0, CachePool) ELSE {})
         /\ DOMAIN metadata = scanned \cup {"0"}
    /\ pc = "save" =>
         /\ metadata["0"] = LiveScan(fs0, CachePool)
         /\ \A n \in scanned : metadata[n] = SnapshotScan(fs0, SnapDir(CachePool, n))

\* a run given an unparsable file walked two snapshots and reached its end
C14_Witness ==
  /\ args.metadata_path
  /\ disk0.state = "corrupt"
  /\ pc = "done"
  /\ Cardinality(scanned) = 2
  /\ metadata["0"].files # <<>>

\* what is left to hold in the pool by the run's own count
TrackedUsage == loc.live_size - loc.stale_moved_size

\* C15: when the path of a candidate no longer exists at the time of its
\* transfer, in the primary or the stale pass, rsync is not run and the
\* candidate is handled as moved: nothing changes on the filesystem, its
\* entry is out of the "0" inventory afterwards, and its size leaves the
\* tracked usage and its pass's counter goes up by one if the entry was
\* still there, as for a transfer that succeeded.
C15_MissingPath ==
  [][(attempts' # attempts /\ ~Exists(fs, Last(attempts').fp)) =>
       LET a   == Last(attempts')
           had == HasKey(metadata["0"].files, a.fp)
       IN  /\ a.ok
           /\ ~a.invoked
           /\ fs' = fs
           /\ backing' = backing
           /\ ~HasKey(metadata'["0"].files, a.fp)
           /\ metadata'["0"].files = Pop(metadata["0"].files, a.fp)
           /\ TrackedUsage' = TrackedUsage - (IF had THEN a.st.st_size ELSE 0)
           /\ a.pass = "primary" =>
                had /\ loc'.move_count = loc.move_count + 1
           /\ a.pass = "stale" =>
                loc'.stale_moved_count =
                  loc.stale_moved_count + (IF had THEN 1 ELSE 0)
           /\ pc' = pc
           /\ loc'.i = loc.i + 1]_vars

\* in a real run a candidate of the primary pass was gone when its turn
\* came, its size left the tracked usage, and a candidate of the stale pass
\* was gone too
C15_Witness ==
  /\ ~args.audit_mode
  /\ \E j \in 1..Len(attempts) :
       /\ attempts[j].pass = "primary"
       /\ attempts[j].ok
       /\ ~attempts[j].invoked
       /\ ~HasKey(metadata["0"].files, attempts[j].fp)
  /\ \E j \in 1..Len(attempts) :
       /\ attempts[j].pass = "stale"
       /\ attempts[j].ok
       /\ ~attempts[j].invoked

\* C16: before each candidate of the primary pass and at its end, liveSize is
\* the sum of the sizes of the files still in the "0" inventory; during and
\* after the stale pass liveSize less the stale bytes moved is that sum.
C16_Accounting ==
  /\ pc = "primary" => loc.live_size = SumSizes(metadata["0"].files)
  /\ (pc = "stale" /\ loc.i = 1) => loc.live_size = SumSizes(metadata["0"].files)
  /\ pc \in {"stale", "final", "done"} =>
       /\ loc.live_size - loc.stale_moved_size = SumSizes(metadata["0"].files)
       /\ loc.stale_moved_size >= 0

\* a run ended after one transfer failed, the stale pass moved and counted
\* one file, and went over another file that the primary pass had moved
C16_Witness ==
  /\ pc = "done"
  /\ \E j \in 1..Len(attempts) : ~attempts[j].ok
  /\ loc.stale_moved_count >= 1
  /\ \E j, k \in 1..Len(attempts) :
       /\ attempts[j].pass = "primary"
       /\ attempts[k].pass = "stale"
       /\ attempts[j].fp = attempts[k].fp
       /\ attempts[j].ok
       /\ attempts[k].ok

(* ------------- main as a function, every rsync exiting 0 -------------- *)

\* lines 241-257 from candidate list cands on; s holds the filesystem, the
\* backing pool, the "0" files, live_size, the counter and the paths tried
RECURSIVE PrimaryPass(_, _, _, _)
PrimaryPass(a, total_size, cands, s) ==
  IF cands = <<>> \/ ShouldStop(s.live_size, total_size, a.threshold) THEN s
  ELSE LET o == Head(cands)
           r == RsyncMove(CachePool, o.fp, a.audit_mode, s.fs, s.backing, 0)
           t == [s EXCEPT !.fs = r.fs, !.backing = r.backing,
                          !.tried = Append(@, <<"primary", o.fp>>)]
       IN  PrimaryPass(a, total_size, Tail(cands),
             IF Moved(r)
             THEN [t EXCEPT !.live_size = @ - o.st.st_size,
                            !.move_count = @ + 1,
                            !.files = Pop(@, o.fp)]
             ELSE t)

\* lines 268-272 from candidate list cands on
RECURSIVE StalePass(_, _, _)
StalePass(a, cands, s) ==
  IF cands = <<>> THEN s
  ELSE LET o == Head(cands)
           r == RsyncMove(CachePool, o.fp, a.audit_mode, s.fs, s.backing, 0)
           t == [s EXCEPT !.fs = r.fs, !.backing = r.backing,
                          !.tried = Append(@, <<"stale", o.fp>>)]
       IN  StalePass(a, Tail(cands),
             IF Moved(r)
             THEN IF StaleCounted(t.files, o.fp)
                  THEN [t EXCEPT !.stale_moved_size = @ + o.st.st_size,
                                 !.stale_moved_count = @ + 1,
                                 !.files = Pop(@, o.fp)]
                  ELSE t
             ELSE t)

\* lines 194-277: the run of main with arguments a on filesystem f, usage u
\* and metadata file file
MainRun(a, f, u, file) ==
  LET none == [exited |-> TRUE, fs |-> f, backing |-> {}, files |-> <<>>,
               live_size |-> 0, move_count |-> 0, stale_moved_size |-> 0,
               stale_moved_count |-> 0, tried |-> <<>>]
  IN  IF Under(Used(f, u), u.total, a.threshold) THEN none
      ELSE LET loaded == IF a.metadata_path THEN LoadMetadata(file) ELSE EmptyStore
               md     == UpdateMetadata(CachePool, f, loaded)
               live   == SumSizes(md["0"].files)
           IN  IF Under(live, u.total, a.threshold) THEN none
               ELSE LET l == GetFilelists(md, a.stale_atime_days)
                        p == PrimaryPass(a, u.total, LiveFiles(l),
                               [none EXCEPT !.exited = FALSE,
                                            !.files = md["0"].files,
                                            !.live_size = live])
                    IN  StalePass(a, l.stale_in_snap, p)

\* the paths the run has tried, pass by pass
Tried == [i \in 1..Len(attempts) |-> <<attempts[i].pass, attempts[i].fp>>]

\* C17: an audit run ends with the candidate sequence, the "0" inventory,
\* the moved counts and bytes of both passes and so the final ratio of the
\* real run of the same arguments, filesystem and metadata file in which
\* every rsync exits 0; the audit run leaves the filesystem as it was and
\* saves to the audit path, the real run moves the files and saves to the
\* metadata path. A run that exits early does so in both modes.
C17_AuditAsReal ==
  LET real == MainRun([args EXCEPT !.audit_mode = FALSE], fs0, usage, disk0)
      allOk == \A i \in 1..Len(attempts) : attempts[i].ok
  IN  /\ (pc = "done" /\ (args.audit_mode \/ allOk)) =>
           /\ ~real.exited
           /\ Tried = real.tried
           /\ metadata["0"].files = real.files
           /\ loc.move_count = real.move_count
           /\ loc.live_size = real.live_size
           /\ loc.stale_moved_count = real.stale_moved_count
           /\ loc.stale_moved_size = real.stale_moved_size
           /\ IF args.audit_mode
              THEN /\ fs = fs0
                   /\ backing = {}
                   /\ args.metadata_path => Last(saves) = "metadata_path_audit.json"
              ELSE /\ fs = real.fs
                   /\ backing = real.backing
                   /\ args.metadata_path => Last(saves) = "metadata_path"
      /\ pc = "exit" => real.exited

\* an audit run ended after both passes counted moves, on a pool where the
\* real run removes files
C17_Witness ==
  /\ args.audit_mode
  /\ pc = "done"
  /\ loc.move_count >= 1
  /\ loc.stale_moved_count >= 1
  /\ \E i, j \in 1..Len(attempts) :
       /\ attempts[i].pass = "primary"
       /\ attempts[j].pass = "stale"
       /\ attempts[i].fp = attempts[j].fp
  /\ MainRun([args EXCEPT !.audit_mode = FALSE], fs0, usage, disk0).fs # fs0

\* the run has ended: exit(0) of lines 201 and 224, or the end of main
Done == pc \in {"exit", "done"}

\* the statements of main still ahead, a loop counting for one
PcRank ==
  CASE pc = "start" -> 9 [] pc = "load" -> 8 [] pc = "update" -> 7
    [] pc = "save" -> 6 [] pc = "size" -> 5 [] pc = "classify" -> 4
    [] pc = "primary" -> 3 [] pc = "stale" -> 2 [] pc = "final" -> 1
    [] OTHER -> 0

\* the candidates the loop at pc has not reached yet
Remaining ==
  CASE pc = "primary" -> Len(loc.live_files) + 1 - loc.i
    [] pc = "stale" -> Len(loc.stale_in_snap) + 1 - loc.i
    [] OTHER -> 0

\* a bound on what is left of the run: no loop holds more candidates than
\* the pool has live files
Rank == PcRank * (Cardinality(LiveNames) + 1) + Remaining

\* C18: every run ends, each step of main bringing it closer to its end by
\* a natural-valued measure that is 0 only when the run is over; no
\* candidate of the primary pass is attempted more than once; and when the
\* primary pass is over and none of its transfers failed, liveSize /
\* totalSize is under the threshold or no candidate of the pass is left in
\* the "0" inventory.
C18_Terminates ==
  /\ [][Rank' < Rank]_vars
  /\ [](Rank \in Nat /\ Remaining \in 0..Cardinality(LiveNames) /\ (Rank = 0 <=> Done))
  /\ [](\A j, k \in 1..Len(PrimaryAttempts) :
          PrimaryAttempts[j].fp = PrimaryAttempts[k].fp => j = k)
  /\ []((PrimaryOver /\ \A j \in 1..Len(PrimaryAttempts) : PrimaryAttempts[j].ok) =>
          \/ Under(loc.live_size, loc.total_size, args.threshold)
          \/ \A o \in Items(loc.live_files) : ~HasKey(metadata["0"].files, o.fp))

\* a run has ended whose primary pass went through all its candidates, at
\* least two, without a failure, and none of them is left in the inventory
C18_Witness ==
  /\ pc = "done"
  /\ Len(PrimaryAttempts) = Len(loc.live_files)
  /\ Len(PrimaryAttempts) >= 2
  /\ \A j \in 1..Len(PrimaryAttempts) : PrimaryAttempts[j].ok
  /\ \A o \in Items(loc.live_files) : ~HasKey(metadata["0"].files, o.fp)

\* C19: after update_metadata, for every snapshot of the store and every
\* directory D recorded under its root on another device than that root,
\* the snapshot's inventory holds no file below D and no directory below D
\* was walked.
C19_SnapshotDeviceBoundary ==
  Refreshed =>
    \A n \in DOMAIN metadata \ {"0"} :
      LET inv  == metadata[n]
          root == CHOOSE o \in Items(inv.dirs) : o.fp = inv.root
      IN  \A D \in Items(inv.dirs) :
            (Below(inv.root, D.fp) /\ D.st.st_dev # root.st.st_dev) =>
              /\ \A o \in Items(inv.files) : ~Below(D.fp, o.fp)
              /\ \A o \in Items(inv.dirs) : ~Below(D.fp, o.fp)

\* live path fp with its leading live root replaced by the root of the
\* snapshot get_filelists takes for the latest
Counterpart(md, fp) ==
  md[LatestSnapNum(md)].root \o SubSeq(fp, Len(md["0"].root) + 1, Len(fp))

\* C20: the path get_filelists looks up in the latest snapshot is the live
\* path with only its leading live-root prefix replaced by the snapshot
\* root, and every file of "0" whose counterpart is in the inventory of that
\* snapshot is in the in-snapshot list.
C20_PrefixOnly ==
  pc = "classified" =>
    \A o \in Items(metadata["0"].files) :
      /\ FpSnap(metadata, o.fp) = Counterpart(metadata, o.fp)
      /\ HasKey(metadata[LatestSnapNum(metadata)].files, Counterpart(metadata, o.fp))
           => o \in Items(loc.live_in_snap)

====
